---- MODULE Spec2Model ----
(***************************************************************************)
(* Model of scripts/generate-data.js: the command line script that fetches *)
(* a repository's recursive tree listing from the GitHub API and writes    *)
(* src/data/nodes.js and src/data/edges.js.                                *)
(*                                                                         *)
(* Strings are sequences of one-character strings.  A path ("a/a/b") is    *)
(* represented by the sequence of its segments (<<"a","a","b">>); segment  *)
(* names are single letters, so that the order of two paths as strings is  *)
(* the lexicographic order of their segment sequences.                     *)
(***************************************************************************)
EXTENDS Integers, Sequences, FiniteSets, TLC

\* ------------------------------------------------------------------ bounds
\* The node cap.  The script sets it to 2500; the model scales it down so
\* that listings below, at and above the cap are all explored.
MAX_NODES == 4

\* Largest number of entries of a tree listing.
MaxEntries == 4

\* Segment names, in collation order.
Names == <<"a", "b">>

\* The paths a listing may contain.
Paths == { <<"a">>, <<"b">>, <<"a", "a">>, <<"a", "b">>, <<"a", "a", "a">> }

\* The paths at which a listing may have a submodule.
SubmodulePaths == { <<"b">>, <<"a", "b">> }

\* Command line arguments: the repo argument and the branch argument.
RepoStrs ==
  { <<>>, <<"o">>, <<"o", "/">>, <<"/", "r">>, <<"o", "/", "r">> }

BranchStrs == { <<>>, <<"m">> }

ArgvSet ==
  { <<>> } \cup { <<r>> : r \in RepoStrs }
           \cup { <<r, b>> : r \in RepoStrs, b \in BranchStrs }

\* Values of default_branch in the repository metadata.
DefaultBranches == { <<"d">> }

\* HTTP statuses of a response.
Statuses == { 200, 403, 404 }

VARIABLES
  argv,      \* process.argv.slice(2)
  pc,        \* position of the script
  exitCode,  \* process exit status once pc = "exited" or "done"
  requests,  \* the GitHub requests issued so far, in order
  responses, \* how each request that has ended did end, in order
  ref,       \* the ref whose tree is fetched
  tree,      \* treeData.tree: a set of entry occurrences
  entries,   \* the sorted entries
  nodes,     \* the nodes array (nodes[k + 1] is the node at index k)
  dirMap,    \* path -> node index
  nextId,    \* next id to hand out
  edges,     \* flat array child, parent, child, parent, ...
  written    \* the files written so far, in order, with their content

vars ==
  << argv, pc, exitCode, requests, responses, ref, tree, entries, nodes, dirMap,
     nextId, edges, written >>

\* ------------------------------------------------------------ pure helpers
Rank(name) == CHOOSE i \in 1..Len(Names) : Names[i] = name

RECURSIVE localeCompare(_, _)
localeCompare(p, q) ==
  IF p = <<>> THEN (IF q = <<>> THEN 0 ELSE -1)
  ELSE IF q = <<>> THEN 1
  ELSE IF Rank(Head(p)) < Rank(Head(q)) THEN -1
  ELSE IF Rank(Head(p)) > Rank(Head(q)) THEN 1
  ELSE localeCompare(Tail(p), Tail(q))

\* path.dirname: "." for a path of one segment.
Dot == <<".">>

dirname(p) == IF Len(p) <= 1 THEN Dot ELSE SubSeq(p, 1, Len(p) - 1)

ParentKey(p) == IF dirname(p) = Dot THEN <<>> ELSE dirname(p)

\* String(n) for a natural number: its decimal digits.
Digits == <<"0", "1", "2", "3", "4", "5", "6", "7", "8", "9">>

RECURSIVE String(_)
String(n) ==
  IF n < 10 THEN << Digits[n + 1] >>
  ELSE String(n \div 10) \o << Digits[(n % 10) + 1] >>

\* str.split('/')
RECURSIVE SplitFrom(_, _)
SplitFrom(s, cur) ==
  IF s = <<>> THEN << cur >>
  ELSE IF Head(s) = "/" THEN << cur >> \o SplitFrom(Tail(s), <<>>)
  ELSE SplitFrom(Tail(s), Append(cur, Head(s)))

Split(s) == SplitFrom(s, <<>>)

Min(a, b) == IF a <= b THEN a ELSE b

\* Map.set
MapSet(m, k, v) == [x \in DOMAIN m \cup {k} |-> IF x = k THEN v ELSE m[x]]

NodeAt(ns, k) == ns[k + 1]

\* --------------------------------------------------- argument validation
\* !repoArg: the argument is missing or the empty string.
RepoArgMissing(av) == Len(av) = 0 \/ av[1] = <<>>

\* const [owner, repo] = repoArg.split('/'); !owner || !repo
RepoArgInvalid(av) ==
  LET parts == Split(av[1])
  IN  parts[1] = <<>> \/ Len(parts) < 2 \/ parts[2] = <<>>

\* Variant of BranchGiven: the default branch is looked up even though a
\* branch is given.
BranchNeverGiven(av) == FALSE

\* branch || ... : the branch argument is present and not the empty string.
BranchGiven(av) == Len(av) >= 2 /\ av[2] # <<>>

RepoRequest == [api |-> "repo"]

TreeRequest(r) == [api |-> "tree", ref |-> r]

\* ----------------------------------------------------------------- sorting
\* Variant of EntryCompare: paths in descending order.
EntryCompareDescending(a, b) ==
  IF a.type # b.type THEN (IF a.type = "tree" THEN -1 ELSE 1)
  ELSE -localeCompare(a.path, b.path)

\* The comparator handed to Array.prototype.sort.
EntryCompare(a, b) ==
  IF a.type # b.type THEN (IF a.type = "tree" THEN -1 ELSE 1)
  ELSE localeCompare(a.path, b.path)

RECURSIVE Perms(_)
Perms(S) ==
  IF S = {} THEN { <<>> }
  ELSE UNION { { <<x>> \o s : s \in Perms(S \ {x}) } : x \in S }

\* The comparator answers consistently for every pair that involves a.
Reliable(a, t) == \A x \in t : EntryCompare(a, x) = -EntryCompare(x, a)

\* a may stand before b in the sorted array (the sort is stable).
InOrder(a, b) ==
  EntryCompare(a, b) < 0 \/ (EntryCompare(a, b) = 0 /\ a.n <= b.n)

\* The arrays sort may return.  Where the comparator is consistent the
\* order is determined; between two entries it compares inconsistently (a
\* blob and a submodule compare as "greater" both ways) the order is
\* implementation-defined.
SortOutcomes(t) ==
  { s \in Perms(t) :
      \A i \in 1..Len(s) : \A j \in (i + 1)..Len(s) :
        (Reliable(s[i], t) \/ Reliable(s[j], t)) => InOrder(s[i], s[j]) }

\* ------------------------------------------------------------ node passes
RootNode == [t |-> "r", p |-> <<"/">>, id |-> 0]

\* Variant of NewNode: the pid is the id of the node pushed last.
NewNodePidOfPrevious(st, kind, path) ==
  LET parentKey == ParentKey(path)
  IN  IF parentKey \in DOMAIN st.dirMap /\ st.dirMap[parentKey] # 0
      THEN [t |-> kind, p |-> path, id |-> st.nextId,
            pid |-> String(st.nextId - 1)]
      ELSE [t |-> kind, p |-> path, id |-> st.nextId]

\* Variant of NewNode: a pid also for the children of the root.
NewNodePidAlways(st, kind, path) ==
  LET parentKey == ParentKey(path)
  IN  IF parentKey \in DOMAIN st.dirMap
      THEN [t |-> kind, p |-> path, id |-> st.nextId,
            pid |-> String(NodeAt(st.nodes, st.dirMap[parentKey]).id)]
      ELSE [t |-> kind, p |-> path, id |-> st.nextId]

\* The node object of an entry, with its pid when the parent is a listed
\* directory other than the root.
NewNode(st, kind, path) ==
  LET parentKey == ParentKey(path)
  IN  IF parentKey \in DOMAIN st.dirMap /\ st.dirMap[parentKey] # 0
      THEN [t |-> kind, p |-> path, id |-> st.nextId,
            pid |-> String(NodeAt(st.nodes, st.dirMap[parentKey]).id)]
      ELSE [t |-> kind, p |-> path, id |-> st.nextId]

PushDir(st, e) ==
  [nodes |-> Append(st.nodes, NewNode(st, "d", e.path)),
   dirMap |-> MapSet(st.dirMap, e.path, Len(st.nodes)),
   nextId |-> st.nextId + 1]

\* Variant of PushFile: the id counter is not advanced.
PushFileSameId(st, e) ==
  [nodes |-> Append(st.nodes, NewNode(st, "f", e.path)),
   dirMap |-> st.dirMap,
   nextId |-> st.nextId]

\* Variant of PushFile: files are entered in dirMap like directories.
PushFileIntoDirMap(st, e) ==
  [nodes |-> Append(st.nodes, NewNode(st, "f", e.path)),
   dirMap |-> MapSet(st.dirMap, e.path, Len(st.nodes)),
   nextId |-> st.nextId + 1]

PushFile(st, e) ==
  [nodes |-> Append(st.nodes, NewNode(st, "f", e.path)),
   dirMap |-> st.dirMap,
   nextId |-> st.nextId + 1]

RECURSIVE DirPass(_, _)
DirPass(es, st) ==
  IF es = <<>> THEN st
  ELSE DirPass(Tail(es),
               IF Head(es).type # "tree" THEN st ELSE PushDir(st, Head(es)))

RECURSIVE FilePass(_, _)
FilePass(es, st) ==
  IF es = <<>> THEN st
  ELSE FilePass(Tail(es),
                IF Head(es).type # "blob" THEN st ELSE PushFile(st, Head(es)))

\* ------------------------------------------------------------------- edges
\* Variant of EdgeOf: no edge to the root, as for pid.
EdgeOfSkipRoot(i, ns, dm) ==
  LET parentKey == ParentKey(NodeAt(ns, i).p)
  IN  IF parentKey \in DOMAIN dm /\ dm[parentKey] # 0
      THEN << i, dm[parentKey] >> ELSE <<>>

EdgeOf(i, ns, dm) ==
  LET parentKey == ParentKey(NodeAt(ns, i).p)
  IN  IF parentKey \in DOMAIN dm THEN << i, dm[parentKey] >> ELSE <<>>

RECURSIVE BuildEdges(_, _, _)
BuildEdges(i, ns, dm) ==
  IF i >= Len(ns) THEN <<>>
  ELSE EdgeOf(i, ns, dm) \o BuildEdges(i + 1, ns, dm)

\* -------------------------------------------------------------------- trim
TrimmedEdgeOf(i, ns, dm) ==
  LET parentKey == ParentKey(NodeAt(ns, i).p)
  IN  IF parentKey \in DOMAIN dm /\ dm[parentKey] < Len(ns)
      THEN << i, dm[parentKey] >> ELSE <<>>

RECURSIVE RebuildEdges(_, _, _)
RebuildEdges(i, ns, dm) ==
  IF i >= Len(ns) THEN <<>>
  ELSE TrimmedEdgeOf(i, ns, dm) \o RebuildEdges(i + 1, ns, dm)

\* Variant of Truncate: one node too many is kept.
TruncateOneMore(ns) == SubSeq(ns, 1, Min(Len(ns), MAX_NODES + 1))

\* nodes.length = MAX_NODES
Truncate(ns) == SubSeq(ns, 1, MAX_NODES)

\* ------------------------------------------------------------ the script
\* Entries of the git trees API: directories (tree), files (blob) and
\* submodules (commit).
EntryUniverse ==
  { [path |-> p, type |-> ty] : p \in Paths, ty \in { "tree", "blob" } }
    \cup { [path |-> p, type |-> "commit"] : p \in SubmodulePaths }

Occurrence(e, k) == [path |-> e.path, type |-> e.type, n |-> k]

\* The listings of at most MaxEntries entries; at most one entry occurs twice.
Listings ==
  UNION { { { Occurrence(e, 1) : e \in S } \cup { Occurrence(e, 2) : e \in D } :
            D \in { X \in SUBSET S :
                      Cardinality(X) <= 1
                      /\ Cardinality(S) + Cardinality(X) <= MaxEntries } } :
          S \in { X \in SUBSET EntryUniverse : Cardinality(X) <= MaxEntries } }

Init ==
  /\ argv \in ArgvSet
  /\ pc = "start"
  /\ exitCode = 0
  /\ requests = <<>>
  /\ responses = <<>>
  /\ ref = <<>>
  /\ tree = {}
  /\ entries = <<>>
  /\ nodes = <<>>
  /\ dirMap = <<>>
  /\ nextId = 0
  /\ edges = <<>>
  /\ written = <<>>

\* process.exit(1), from the argument checks or from main().catch
Exit1 ==
  /\ pc' = "exited"
  /\ exitCode' = 1

\* Lines 20-31: the argument checks.
Validate ==
  /\ pc = "start"
  /\ IF RepoArgMissing(argv) \/ RepoArgInvalid(argv)
     THEN Exit1
     ELSE pc' = "main" /\ UNCHANGED exitCode
  /\ UNCHANGED << argv, requests, responses, ref, tree, entries, nodes, dirMap, nextId,
                  edges, written >>

\* main up to its first await: the tree request when a branch is given,
\* the repository request of getDefaultBranch otherwise.
MainStart ==
  /\ pc = "main"
  /\ IF BranchGiven(argv)
     THEN /\ ref' = argv[2]
          /\ requests' = Append(requests, TreeRequest(argv[2]))
          /\ pc' = "await_tree"
     ELSE /\ requests' = Append(requests, RepoRequest)
          /\ pc' = "await_repo"
          /\ UNCHANGED ref
  /\ UNCHANGED << argv, exitCode, responses, tree, entries, nodes, dirMap,
                  nextId, edges, written >>

\* Variant of Rejected: the status is not looked at.
RejectedOnErrorOnly(status, networkError) == networkError

\* A request ends with a status other than 200, or with a network error:
\* the promise is rejected.
Rejected(status, networkError) == networkError \/ status # 200

Response(status, networkError) ==
  [status |-> status, networkError |-> networkError]

\* The repository request ends with status 200: main resumes with the
\* default branch and issues the tree request.
RepoResolved ==
  /\ pc = "await_repo"
  /\ \E status \in Statuses, networkError \in BOOLEAN :
       /\ ~Rejected(status, networkError)
       /\ responses' = Append(responses, Response(status, networkError))
  /\ \E d \in DefaultBranches :
       /\ ref' = d
       /\ requests' = Append(requests, TreeRequest(d))
  /\ pc' = "await_tree"
  /\ UNCHANGED << argv, exitCode, tree, entries, nodes, dirMap, nextId,
                  edges, written >>

\* A request is rejected: main().catch exits.
RepoRejected ==
  /\ pc = "await_repo"
  /\ \E status \in Statuses, networkError \in BOOLEAN :
       /\ Rejected(status, networkError)
       /\ responses' = Append(responses, Response(status, networkError))
  /\ Exit1
  /\ UNCHANGED << argv, requests, ref, tree, entries, nodes, dirMap, nextId,
                  edges, written >>

TreeRejected ==
  /\ pc = "await_tree"
  /\ \E status \in Statuses, networkError \in BOOLEAN :
       /\ Rejected(status, networkError)
       /\ responses' = Append(responses, Response(status, networkError))
  /\ Exit1
  /\ UNCHANGED << argv, requests, ref, tree, entries, nodes, dirMap, nextId,
                  edges, written >>

\* The tree request ends with status 200.
TreeResolved ==
  /\ pc = "await_tree"
  /\ \E status \in Statuses, networkError \in BOOLEAN :
       /\ ~Rejected(status, networkError)
       /\ responses' = Append(responses, Response(status, networkError))
  /\ tree' \in Listings
  /\ pc' = "sort"
  /\ UNCHANGED << argv, exitCode, requests, ref, entries, nodes, dirMap,
                  nextId, edges, written >>

\* Lines 78-92: the root node and the sorted entries.
SortEntries ==
  /\ pc = "sort"
  /\ nodes' = << RootNode >>
  /\ dirMap' = MapSet(<<>>, <<>>, 0)
  /\ nextId' = 1
  /\ entries' \in SortOutcomes(tree)
  /\ pc' = "dirs"
  /\ UNCHANGED << argv, exitCode, requests, responses, ref, tree, edges, written >>

\* Lines 94-109: first pass.
Directories ==
  /\ pc = "dirs"
  /\ LET st == DirPass(entries,
                       [nodes |-> nodes, dirMap |-> dirMap, nextId |-> nextId])
     IN  /\ nodes' = st.nodes
         /\ dirMap' = st.dirMap
         /\ nextId' = st.nextId
  /\ pc' = "files"
  /\ UNCHANGED << argv, exitCode, requests, responses, ref, tree, entries, edges, written >>

\* Lines 111-125: second pass.
Files ==
  /\ pc = "files"
  /\ LET st == FilePass(entries,
                        [nodes |-> nodes, dirMap |-> dirMap, nextId |-> nextId])
     IN  /\ nodes' = st.nodes
         /\ dirMap' = st.dirMap
         /\ nextId' = st.nextId
  /\ pc' = "edges"
  /\ UNCHANGED << argv, exitCode, requests, responses, ref, tree, entries, edges, written >>

\* Lines 127-138.
Edges ==
  /\ pc = "edges"
  /\ edges' = BuildEdges(1, nodes, dirMap)
  /\ pc' = "trim"
  /\ UNCHANGED << argv, exitCode, requests, responses, ref, tree, entries, nodes, dirMap,
                  nextId, written >>

\* Lines 140-156.
Trim ==
  /\ pc = "trim"
  /\ IF Len(nodes) > MAX_NODES
     THEN /\ nodes' = Truncate(nodes)
          /\ edges' = RebuildEdges(1, Truncate(nodes), dirMap)
     ELSE UNCHANGED << nodes, edges >>
  /\ pc' = "write_nodes"
  /\ UNCHANGED << argv, exitCode, requests, responses, ref, tree, entries, dirMap, nextId,
                  written >>

\* Line 169.
WriteNodes ==
  /\ pc = "write_nodes"
  /\ written' = Append(written, [file |-> "nodes.js", content |-> nodes])
  /\ pc' = "write_edges"
  /\ UNCHANGED << argv, exitCode, requests, responses, ref, tree, entries, nodes, dirMap,
                  nextId, edges >>

\* Line 170; main returns and the process ends with status 0.
WriteEdges ==
  /\ pc = "write_edges"
  /\ written' = Append(written, [file |-> "edges.js", content |-> edges])
  /\ pc' = "done"
  /\ UNCHANGED << argv, exitCode, requests, responses, ref, tree, entries, nodes, dirMap,
                  nextId, edges >>

\* writeFileSync throws (the data directory is missing, the disk is full):
\* main().catch exits, and the file is not written.
WriteThrows ==
  /\ pc \in { "write_nodes", "write_edges" }
  /\ Exit1
  /\ UNCHANGED << argv, requests, responses, ref, tree, entries, nodes, dirMap, nextId,
                  edges, written >>

Next ==
  \/ Validate
  \/ MainStart
  \/ RepoResolved
  \/ RepoRejected
  \/ TreeResolved
  \/ TreeRejected
  \/ SortEntries
  \/ Directories
  \/ Files
  \/ Edges
  \/ Trim
  \/ WriteNodes
  \/ WriteEdges
  \/ WriteThrows

Spec == Init /\ [][Next]_vars

\* ================================================================== claims
\* The content of a file the script has written.
Written(file) == \E k \in 1..Len(written) : written[k].file = file

ContentOf(file) ==
  written[CHOOSE k \in 1..Len(written) : written[k].file = file].content

\* Both files are written: the emitted nodes and edges.
Emitted == Written("nodes.js") /\ Written("edges.js")

EmittedNodes == ContentOf("nodes.js")

EmittedEdges == ContentOf("edges.js")

TreeEntries(t) == { e \in t : e.type = "tree" }

BlobEntries(t) == { e \in t : e.type = "blob" }

OtherEntries(t) == { e \in t : e.type \notin { "tree", "blob" } }

\* The listing has more nodes than the cap: the trim happens.
OverCap(t) == 1 + Cardinality(TreeEntries(t)) + Cardinality(BlobEntries(t)) > MAX_NODES

\* Paths are distinct, and the parent directory of every nested entry is
\* listed as a tree entry.
WellFormed(t) ==
  /\ \A e, f \in t : e.path = f.path => e = f
  /\ \A e \in t :
       Len(e.path) > 1 =>
         \E d \in t : d.type = "tree" /\ d.path = dirname(e.path)

\* The (child, parent) pairs of a flat edge array.
PairCount(es) == Len(es) \div 2

Child(es, k) == es[2 * k - 1]

Parent(es, k) == es[2 * k]

HasPid(n) == "pid" \in DOMAIN n

\* C1: the emitted node array is index-contiguous: the node at position k
\* has id k, and position 0 holds the root (t = 'r', p = '/'), with or
\* without the trim, whatever the types of the listed entries.
C1_IndexContiguous ==
  Written("nodes.js") =>
    /\ Len(EmittedNodes) >= 1
    /\ \A k \in 0..(Len(EmittedNodes) - 1) : NodeAt(EmittedNodes, k).id = k
    /\ NodeAt(EmittedNodes, 0).t = "r"
    /\ NodeAt(EmittedNodes, 0).p = <<"/">>

C1_Witness ==
  /\ Written("nodes.js")
  /\ OverCap(tree)
  /\ BlobEntries(tree) # {}
  /\ TreeEntries(tree) # {}
  /\ Len(EmittedNodes) = MAX_NODES
  /\ NodeAt(EmittedNodes, MAX_NODES - 1).t = "f"

\* Following the parent links of es from node c reaches index 0 within
\* fuel steps.
RECURSIVE ReachesRoot(_, _, _)
ReachesRoot(es, c, fuel) ==
  IF c = 0 THEN TRUE
  ELSE IF fuel = 0 THEN FALSE
  ELSE \E k \in 1..PairCount(es) :
         Child(es, k) = c /\ ReachesRoot(es, Parent(es, k), fuel - 1)

\* C2: for a well-formed listing the emitted edges are exactly N-1 pairs
\* for N emitted nodes: every index 1..N-1 is a child exactly once, index 0
\* never is, and the parent links lead from every node to index 0; with and
\* without the trim.
C2_TreeEdges ==
  (Emitted /\ WellFormed(tree)) =>
    LET N == Len(EmittedNodes)
        es == EmittedEdges
    IN  /\ Len(es) = 2 * (N - 1)
        /\ \A c \in 1..(N - 1) :
             Cardinality({ k \in 1..PairCount(es) : Child(es, k) = c }) = 1
        /\ \A k \in 1..PairCount(es) : Child(es, k) # 0
        /\ \A c \in 0..(N - 1) : ReachesRoot(es, c, N)

C2_Witness ==
  /\ Emitted
  /\ WellFormed(tree)
  /\ OverCap(tree)
  /\ \E k \in 1..PairCount(EmittedEdges) : Parent(EmittedEdges, k) # 0

\* The trim has happened and the arrays are final.
AfterTrim == pc \in { "write_nodes", "write_edges", "done" } /\ OverCap(tree)

\* C3: after the trim, whenever the parent directory of a kept node had a
\* node before the trim (dirMap still holds its index), that node is kept
\* too, and the rebuilt edges hold the kept node's edge.
C3_ParentKept ==
  AfterTrim =>
    \A i \in 1..(Len(nodes) - 1) :
      LET parentKey == ParentKey(NodeAt(nodes, i).p)
      IN  parentKey \in DOMAIN dirMap =>
            /\ dirMap[parentKey] < Len(nodes)
            /\ \E k \in 1..PairCount(edges) :
                 Child(edges, k) = i /\ Parent(edges, k) = dirMap[parentKey]

C3_Witness ==
  /\ AfterTrim
  /\ \E i \in 1..(Len(nodes) - 1) : Len(NodeAt(nodes, i).p) > 1
  /\ \E e \in tree :
       /\ e.type = "tree"
       /\ Len(e.path) > 1
       /\ \A i \in 0..(Len(nodes) - 1) : NodeAt(nodes, i).p # e.path

\* C4: the number of emitted nodes is min(1 + D + F, cap) for D tree
\* entries and F blob entries; other entries contribute no node.
C4_NodeCount ==
  Written("nodes.js") =>
    Len(EmittedNodes) =
      Min(1 + Cardinality(TreeEntries(tree)) + Cardinality(BlobEntries(tree)),
          MAX_NODES)

C4_Witness ==
  /\ Written("nodes.js")
  /\ OtherEntries(tree) # {}
  /\ Cardinality(tree) = MaxEntries
  /\ Len(EmittedNodes) < MAX_NODES

\* C5: every pid of an emitted node is the decimal string of the id of an
\* emitted directory node at a strictly smaller index whose path is the
\* dirname of the node's path.
C5_PidValid ==
  Written("nodes.js") =>
    \A k \in 0..(Len(EmittedNodes) - 1) :
      LET n == NodeAt(EmittedNodes, k)
      IN  HasPid(n) =>
            \E j \in 0..(k - 1) :
              LET d == NodeAt(EmittedNodes, j)
              IN  /\ n.pid = String(d.id)
                  /\ d.t = "d"
                  /\ d.p = dirname(n.p)

C5_Witness ==
  /\ Written("nodes.js")
  /\ OverCap(tree)
  /\ \E k \in 0..(Len(EmittedNodes) - 1) :
       /\ HasPid(NodeAt(EmittedNodes, k))
       /\ NodeAt(EmittedNodes, k).t = "f"
  /\ \E k \in 0..(Len(EmittedNodes) - 1) :
       /\ HasPid(NodeAt(EmittedNodes, k))
       /\ NodeAt(EmittedNodes, k).t = "d"

\* C6 as stated: for a well-formed listing every emitted node with index
\* >= 1, the top-level ones included, carries a pid, and only the node at
\* index 0 has none.
C6_OnlyRootWithoutPid ==
  (Written("nodes.js") /\ WellFormed(tree)) =>
    \A k \in 0..(Len(EmittedNodes) - 1) :
      HasPid(NodeAt(EmittedNodes, k)) <=> k >= 1

\* C6 amended: for a well-formed listing the emitted nodes without a pid
\* are the root and the nodes located directly at the top level; every
\* other node carries a pid.
C6_PidUnlessTopLevel ==
  (Written("nodes.js") /\ WellFormed(tree)) =>
    \A k \in 0..(Len(EmittedNodes) - 1) :
      HasPid(NodeAt(EmittedNodes, k)) <=>
        (k >= 1 /\ Len(NodeAt(EmittedNodes, k).p) > 1)

C6_Witness ==
  /\ Written("nodes.js")
  /\ WellFormed(tree)
  /\ \E k \in 1..(Len(EmittedNodes) - 1) :
       /\ NodeAt(EmittedNodes, k).t = "d"
       /\ Len(NodeAt(EmittedNodes, k).p) = 1
  /\ \E k \in 1..(Len(EmittedNodes) - 1) :
       /\ NodeAt(EmittedNodes, k).t = "f"
       /\ Len(NodeAt(EmittedNodes, k).p) = 1
  /\ \E k \in 1..(Len(EmittedNodes) - 1) : HasPid(NodeAt(EmittedNodes, k))

\* C7 as stated: when the node list exceeds the cap, the trim keeps every
\* directory node and removes only file nodes.
C7_TrimKeepsDirectories ==
  [][(pc = "trim" /\ Len(nodes) > MAX_NODES) =>
       /\ \A k \in 1..Len(nodes) :
            nodes[k].t = "d" => (k <= Len(nodes') /\ nodes'[k] = nodes[k])
       /\ \A k \in (Len(nodes') + 1)..Len(nodes) : nodes[k].t = "f"]_vars

\* The arguments pass the checks of lines 20-31, so main runs.
ArgsAccepted == ~(RepoArgMissing(argv) \/ RepoArgInvalid(argv))

\* A branch argument is supplied.
BranchSupplied == Len(argv) >= 2 /\ argv[2] # <<>>

Succeeded(r) == r.status = 200 /\ ~r.networkError

\* main has gone past its first await.
MainIssued == ArgsAccepted /\ pc \notin { "start", "main" }

\* C8: with a branch argument main issues exactly one request, the tree
\* request for that branch; without one it issues the repository request
\* first and the tree request, for the returned default branch, only after
\* the repository request has succeeded.  At most two requests are issued,
\* none after a rejected one, none twice.
C8_RequestOrder ==
  /\ Len(requests) <= 2
  /\ Len(responses) <= Len(requests)
  /\ \A i \in 1..Len(responses) :
       ~Succeeded(responses[i]) => Len(requests) = i
  /\ \A i, j \in 1..Len(requests) : i # j => requests[i] # requests[j]
  /\ ~ArgsAccepted => requests = <<>>
  /\ (MainIssued /\ BranchSupplied) => requests = << TreeRequest(argv[2]) >>
  /\ (MainIssued /\ ~BranchSupplied) =>
       /\ requests[1] = RepoRequest
       /\ Len(requests) = 2 =>
            /\ Len(responses) >= 1
            /\ Succeeded(responses[1])
            /\ ref \in DefaultBranches
            /\ requests[2] = TreeRequest(ref)
       /\ (Len(responses) >= 1 /\ Succeeded(responses[1])) => Len(requests) = 2

C8_Witness ==
  /\ pc = "done"
  /\ ~BranchSupplied
  /\ Len(argv) = 2
  /\ requests = << RepoRequest, TreeRequest(ref) >>

\* C9: after a missing or malformed repo argument, or a request that ends
\* with a status other than 200 or a network error, the script has exited
\* with status 1 and has written no file; a file is written only when
\* every request has succeeded and the arrays are built, nodes.js first.
C9_WriteOnlyOnSuccess ==
  /\ (~ArgsAccepted /\ pc # "start") =>
       (pc = "exited" /\ exitCode = 1 /\ written = <<>>)
  /\ (\E i \in 1..Len(responses) : ~Succeeded(responses[i])) =>
       (pc = "exited" /\ exitCode = 1 /\ written = <<>>)
  /\ pc = "exited" => exitCode = 1
  /\ written # <<>> =>
       /\ ArgsAccepted
       /\ Len(responses) = Len(requests)
       /\ \A i \in 1..Len(responses) : Succeeded(responses[i])
       /\ written[1] = [file |-> "nodes.js", content |-> nodes]
       /\ Len(written) <= 2
       /\ Len(written) = 2 =>
            written[2] = [file |-> "edges.js", content |-> edges]
       /\ nodes = IF OverCap(tree)
                  THEN Truncate(FilePass(entries, DirPass(entries,
                         [nodes |-> << RootNode >>,
                          dirMap |-> MapSet(<<>>, <<>>, 0),
                          nextId |-> 1])).nodes)
                  ELSE FilePass(entries, DirPass(entries,
                         [nodes |-> << RootNode >>,
                          dirMap |-> MapSet(<<>>, <<>>, 0),
                          nextId |-> 1])).nodes

C9_Witness ==
  /\ pc = "exited"
  /\ Len(responses) = 2
  /\ Succeeded(responses[1])
  /\ responses[2].status = 404
  /\ written = <<>>

\* C10: for every listing, each emitted (child, parent) pair has
\* 1 <= child <= N-1 and 0 <= parent < child, the node at index parent is
\* the root or a directory, and no child occurs twice (N emitted nodes).
C10_EdgesInRange ==
  Emitted =>
    LET N == Len(EmittedNodes)
        es == EmittedEdges
    IN  /\ Len(es) % 2 = 0
        /\ \A k \in 1..PairCount(es) :
             /\ 1 <= Child(es, k) /\ Child(es, k) <= N - 1
             /\ 0 <= Parent(es, k) /\ Parent(es, k) < Child(es, k)
             /\ NodeAt(EmittedNodes, Parent(es, k)).t \in { "r", "d" }
        /\ \A k, l \in 1..PairCount(es) :
             k # l => Child(es, k) # Child(es, l)

C10_Witness ==
  /\ Emitted
  /\ ~WellFormed(tree)
  /\ OverCap(tree)
  /\ Len(EmittedEdges) < 2 * (Len(EmittedNodes) - 1)
  /\ \E k \in 1..PairCount(EmittedEdges) : Parent(EmittedEdges, k) # 0

====
